---- MODULE Spec2Model ----
(***************************************************************************)
(* Model of src/components/auth/LoginForm.tsx: the login / sign-up form.   *)
(*                                                                         *)
(* State: the three form values, the field errors kept by the form         *)
(* library, the authError banner state, the transition's isPending flag,   *)
(* and the remote authentication requests that are in flight.  One action  *)
(* per handler: a keystroke in a field, a click on either submit button    *)
(* (validation + handleAuthAction up to its first await), the remote       *)
(* response resuming the callback, and the end of the UI transition.       *)
(*                                                                         *)
(* Strings are TLA+ strings, handled character by character, so that       *)
(* includes(), trim() and the length checks are computed, not assumed.     *)
(*                                                                         *)
(* useTransition is given an async callback.  Whether isPending then stays *)
(* set until the callback's promise settles, or only until the callback    *)
(* returns at its first await, is decided by the UI runtime the form is    *)
(* built against, not by this file: asyncTransitions is chosen in Init.    *)
(* The display-name field is always rendered for the addresses in Emails   *)
(* (none names a public mail domain), so the display heuristic is left out.*)
(***************************************************************************)
EXTENDS Integers, Sequences, FiniteSets, Bags, TLC

VARIABLES
    email,            \* form value "email"
    password,         \* form value "password"
    displayName,      \* form value "displayName"
    errors,           \* formState.errors: field -> <<>> or <<message>>
    isSubmitted,      \* formState.isSubmitted (re-validation on change)
    authError,        \* useState<string | null>: <<>> is null, <<m>> is m
    isPending,        \* useTransition's pending flag (disables both buttons)
    asyncTransitions, \* whether the UI runtime keeps a transition pending
                      \* until its async callback settles
    inflight,         \* bag of the attempts suspended at their remote call
    remote,           \* the responses the remote service may give
    out,              \* the effects the last step emitted, in order
    lastStep,         \* what the last step was (which handler, with what)
    lastFailed,       \* history: the submission of the most recent failed
                      \* attempt
    history           \* whether the history (lastFailed, and the resubmit
                      \* mark of attempts and steps) is recorded

vars == <<email, password, displayName, errors, isSubmitted, authError,
          isPending, asyncTransitions, inflight, remote, out, lastStep,
          lastFailed, history>>

-----------------------------------------------------------------------------
(* Bounds *)

\* The most remote calls in flight at once.
MaxInFlight == 2

-----------------------------------------------------------------------------
(* Strings *)

Null == <<>>
Some(x) == <<x>>

Min(S) == CHOOSE x \in S : \A y \in S : x <= y
Max(S) == CHOOSE x \in S : \A y \in S : x >= y

CharAt(s, i) == SubSeq(s, i, i)

\* String.prototype.includes
Includes(s, p) ==
    \E i \in 1..(Len(s) - Len(p) + 1) : SubSeq(s, i, i + Len(p) - 1) = p

IsSpace(c) == c \in {" ", "\t", "\n", "\r"}

\* String.prototype.trim
Trim(s) ==
    LET keep == {i \in 1..Len(s) : ~IsSpace(CharAt(s, i))}
    IN  IF keep = {} THEN "" ELSE SubSeq(s, Min(keep), Max(keep))

Letters ==
    {"a","b","c","d","e","f","g","h","i","j","k","l","m",
     "n","o","p","q","r","s","t","u","v","w","x","y","z",
     "A","B","C","D","E","F","G","H","I","J","K","L","M",
     "N","O","P","Q","R","S","T","U","V","W","X","Y","Z"}
Digits == {"0","1","2","3","4","5","6","7","8","9"}
AlNum == Letters \cup Digits

\* i18n: t(key) is the translation registered under key.
T(key) == "t:" \o key

-----------------------------------------------------------------------------
(* LoginSchema *)

MinPassword == 6
MinDisplayName == 2

\* z.string().email(): local part, one "@", dotted domain, alphabetic TLD.
IsEmail(s) ==
    LET ats == {i \in 1..Len(s) : CharAt(s, i) = "@"}
        at == Min(ats)
        loc == SubSeq(s, 1, at - 1)
        dom == SubSeq(s, at + 1, Len(s))
        dots == {i \in 1..Len(dom) : CharAt(dom, i) = "."}
        tld == SubSeq(dom, Max(dots) + 1, Len(dom))
    IN  /\ Cardinality(ats) = 1
        /\ Len(loc) >= 1
        /\ CharAt(s, 1) # "."
        /\ ~Includes(s, "..")
        /\ \A i \in 1..Len(loc) :
              CharAt(loc, i) \in AlNum \cup {"_", "'", "+", "-", "."}
        /\ CharAt(loc, Len(loc)) \in AlNum \cup {"_", "+", "-"}
        /\ dots # {}
        /\ \A i \in 1..Len(dom) : CharAt(dom, i) \in AlNum \cup {"-", "."}
        /\ CharAt(dom, 1) \in AlNum
        /\ \A i \in dots : i < Len(dom) /\ CharAt(dom, i + 1) \in AlNum
        /\ Len(tld) >= 2
        /\ \A i \in 1..Len(tld) : CharAt(tld, i) \in Letters

\* email: z.string().email('Invalid email address').min(1, 'Email is required')
EmailIssues(e) ==
    (IF IsEmail(e) THEN <<>> ELSE <<"Invalid email address">>)
    \o (IF Len(e) >= 1 THEN <<>> ELSE <<"Email is required">>)

\* A faulty variant: the minimum is off by one.
PasswordIssues_Min5(p) ==
    (IF Len(p) >= MinPassword - 1 THEN <<>>
     ELSE <<"Password must be at least 6 characters">>)
    \o (IF Len(p) >= 1 THEN <<>> ELSE <<"Password is required">>)

\* password: z.string().min(6, ...).min(1, 'Password is required')
PasswordIssues(p) ==
    (IF Len(p) >= MinPassword THEN <<>>
     ELSE <<"Password must be at least 6 characters">>)
    \o (IF Len(p) >= 1 THEN <<>> ELSE <<"Password is required">>)

\* displayName: z.string().min(2, ...).optional().  The form always holds
\* a string for the field (defaultValues.displayName is ''), never
\* undefined, so .optional() never applies and min(2) is checked.
DisplayNameIssues(d) ==
    IF Len(d) >= MinDisplayName THEN <<>>
    ELSE <<"Display name must be at least 2 characters">>

\* The resolver keeps, per field, the first issue reported for it.
FirstIssue(issues) == IF issues = <<>> THEN Null ELSE Some(Head(issues))

Validate(e, p, d) ==
    [email       |-> FirstIssue(EmailIssues(e)),
     password    |-> FirstIssue(PasswordIssues(p)),
     displayName |-> FirstIssue(DisplayNameIssues(d))]

NoErrors == [email |-> Null, password |-> Null, displayName |-> Null]

-----------------------------------------------------------------------------
(* handleAuthAction: its pure parts *)

\* if (!data.displayName || data.displayName.trim().length < 2)
DisplayNameMissing(d) == d = "" \/ Len(Trim(d)) < 2

Toast(title, description, variant) ==
    [kind |-> "toast", title |-> title, description |-> description,
     variant |-> variant]

Push(path) == [kind |-> "push", path |-> path]

\* supabase.auth.signUp({...}) / supabase.auth.signInWithPassword({...})
RemoteCall(action, e, p, d) ==
    IF action = "signUp"
    THEN [kind |-> "call", op |-> "signUp", email |-> e, password |-> p,
          display_name |-> Some(d)]
    ELSE [kind |-> "call", op |-> "signInWithPassword", email |-> e,
          password |-> p, display_name |-> Null]

\* The display-name rejection of sign-up.
RejectionEffects ==
    <<Toast(T("signUpErrorToastTitle"), T("displayNameRequiredToast"),
            "destructive")>>

\* A faulty variant: navigates before it notifies.
SuccessEffects_PushFirst(action) ==
    IF action = "signUp"
    THEN <<Push("/"),
           Toast(T("accountCreatedToastTitle"),
                 T("accountCreatedToastDescription"), "default")>>
    ELSE <<Push("/"),
           Toast(T("signedInToastTitle"),
                 T("signedInToastDescription"), "default")>>

\* After "if (error) throw error" did not throw.
SuccessEffects(action) ==
    IF action = "signUp"
    THEN <<Toast(T("accountCreatedToastTitle"),
                 T("accountCreatedToastDescription"), "default"),
           Push("/")>>
    ELSE <<Toast(T("signedInToastTitle"),
                 T("signedInToastDescription"), "default"),
           Push("/")>>

DefaultMessage == "An unknown error occurred. Please try again."

\* A faulty variant: the already-registered pattern is tested before the
\* invalid-credentials pattern.
FriendlyMessage_RegisteredFirst(message) ==
    LET has(p) == message # Null /\ Includes(message[1], p)
        raw == IF message # Null /\ message[1] # "" THEN message[1]
               ELSE DefaultMessage
    IN  IF has("User already registered")
        THEN "This email is already registered. Please sign in."
        ELSE IF has("Invalid login credentials")
        THEN "Invalid email or password. Please try again."
        ELSE IF has("Password should be at least 6 characters")
        THEN "Password should be at least 6 characters."
        ELSE raw

\* The catch block's mapping; message is Null when error.message is
\* undefined.
FriendlyMessage(message) ==
    LET has(p) == message # Null /\ Includes(message[1], p)
        raw == IF message # Null /\ message[1] # "" THEN message[1]
               ELSE DefaultMessage
    IN  IF has("Invalid login credentials")
        THEN "Invalid email or password. Please try again."
        ELSE IF has("User already registered")
        THEN "This email is already registered. Please sign in."
        ELSE IF has("Password should be at least 6 characters")
        THEN "Password should be at least 6 characters."
        ELSE raw

\* A faulty variant: the sign-in title whatever the action.
FailureEffects_SignInTitle(action, friendlyMessage) ==
    <<Toast(T("signInErrorToastTitle"), friendlyMessage, "destructive")>>

\* A faulty variant: the catch block issues the remote call again.
FailureEffects_Retry(action, friendlyMessage) ==
    <<Toast(IF action = "signUp" THEN T("signUpErrorToastTitle")
            ELSE T("signInErrorToastTitle"),
            friendlyMessage, "destructive"),
      RemoteCall(action, "", "", "")>>

\* The catch block's toast.
FailureEffects(action, friendlyMessage) ==
    <<Toast(IF action = "signUp" THEN T("signUpErrorToastTitle")
            ELSE T("signInErrorToastTitle"),
            friendlyMessage, "destructive")>>

-----------------------------------------------------------------------------
(* Inputs *)

Emails == {"", "a@b", "a@b.co"}
Passwords == {"", "12345", "123456"}
DisplayNames == {"", "a", "  ", "Al"}

MessageTexts ==
    {"",
     "Invalid login credentials",
     "AuthApiError: User already registered",
     "Password should be at least 6 characters.",
     "User already registered; Invalid login credentials",
     "Password should be at least 6 characters; User already registered",
     "Password should be at least 6 characters; Invalid login credentials",
     "Failed to fetch"}

Ok == [error |-> FALSE, message |-> Null]
Err(m) == [error |-> TRUE, message |-> m]

\* What the remote client hands back: {error: null}, or an error (returned
\* or thrown) whose message is a string or is missing.
Responses == {Ok} \cup {Err(m) : m \in {Null} \cup {Some(s) : s \in MessageTexts}}

CoreResponses == {Ok, Err(Some("Invalid login credentials")), Err(Some("Failed to fetch"))}

Submission(action, e, p, d) ==
    [action |-> action, email |-> e, password |-> p, displayName |-> d]

Step(kind, action, sub, resub, response) ==
    [kind |-> kind, action |-> action, sub |-> sub, resubmit |-> resub,
     response |-> response]

Idle(kind) == Step(kind, "none", Null, FALSE, Null)

-----------------------------------------------------------------------------
(* Initial state: useForm defaultValues, useState(null), no transition *)

Mounted ==
    /\ email = ""
    /\ password = ""
    /\ displayName = ""
    /\ errors = NoErrors
    /\ isSubmitted = FALSE
    /\ authError = Null
    /\ isPending = FALSE
    /\ inflight = EmptyBag
    /\ out = <<>>
    /\ lastStep = Idle("init")
    /\ lastFailed = Null

Init ==
    /\ Mounted
    /\ asyncTransitions \in BOOLEAN
    /\ remote = Responses
    /\ history = FALSE

\* The same form against a remote service that answers with fewer
\* distinct messages.
InitCore ==
    /\ Mounted
    /\ asyncTransitions \in BOOLEAN
    /\ remote = CoreResponses
    /\ history = FALSE

\* The same again, with the history of failed submissions recorded.
InitHistory ==
    /\ Mounted
    /\ asyncTransitions \in BOOLEAN
    /\ remote = CoreResponses
    /\ history = TRUE

-----------------------------------------------------------------------------
(* Keystrokes: {...register(field)}.  Once the form has been submitted,   *)
(* the changed field is validated again on every change.                  *)

Revalidated(field, e, p, d) ==
    IF isSubmitted
    THEN [errors EXCEPT ![field] = Validate(e, p, d)[field]]
    ELSE errors

ChangeEmail ==
    \E v \in Emails \ {email} :
        /\ email' = v
        /\ errors' = Revalidated("email", v, password, displayName)
        /\ out' = <<>>
        /\ lastStep' = Idle("change")
        /\ UNCHANGED <<password, displayName, isSubmitted, authError,
                       isPending, asyncTransitions, inflight, remote,
                       lastFailed, history>>

ChangePassword ==
    \E v \in Passwords \ {password} :
        /\ password' = v
        /\ errors' = Revalidated("password", email, v, displayName)
        /\ out' = <<>>
        /\ lastStep' = Idle("change")
        /\ UNCHANGED <<email, displayName, isSubmitted, authError,
                       isPending, asyncTransitions, inflight, remote,
                       lastFailed, history>>

ChangeDisplayName ==
    \E v \in DisplayNames \ {displayName} :
        /\ displayName' = v
        /\ errors' = Revalidated("displayName", email, password, v)
        /\ out' = <<>>
        /\ lastStep' = Idle("change")
        /\ UNCHANGED <<email, password, isSubmitted, authError,
                       isPending, asyncTransitions, inflight, remote,
                       lastFailed, history>>

-----------------------------------------------------------------------------
(* A click on a submit button: handleSubmit(onValid) validates, and on    *)
(* valid data calls handleAuthAction(data, action), which runs up to the  *)
(* remote call's await (or to the display-name return).                   *)

\* A faulty variant: the buttons are never disabled.
Disabled_Never == FALSE

\* disabled={isPending}
Disabled == isPending

\* A faulty variant: the previous error is kept when an attempt starts.
AuthErrorAtStart_Kept == authError

\* setAuthError(null), the first statement of handleAuthAction
AuthErrorAtStart == Null

Attempt(sub, resub) == [sub |-> sub, resubmit |-> resub]

Submit(action) ==
    LET issues == Validate(email, password, displayName)
        sub == Submission(action, email, password, displayName)
        resub == history /\ lastFailed = Some(sub)
    IN  /\ ~Disabled
        /\ isSubmitted' = TRUE
        /\ errors' = issues
        /\ IF issues # NoErrors
           THEN \* invalid: onValid is not called
                /\ lastStep' = Step("blocked", action, Some(sub), resub, Null)
                /\ out' = <<>>
                /\ UNCHANGED <<authError, isPending, inflight>>
           ELSE IF action = "signUp" /\ DisplayNameMissing(displayName)
           THEN \* setAuthError(null); ...; setAuthError(t(...)); toast; return
                /\ lastStep' = Step("rejected", action, Some(sub), resub, Null)
                /\ isPending' = TRUE
                /\ authError' = Some(T("displayNameRequiredToast"))
                /\ out' = RejectionEffects
                /\ UNCHANGED inflight
           ELSE \* setAuthError(null); startTransition; await remote call
                /\ BagCardinality(inflight) < MaxInFlight
                /\ lastStep' = Step("started", action, Some(sub), resub, Null)
                /\ isPending' = TRUE
                /\ authError' = AuthErrorAtStart
                /\ out' = <<RemoteCall(action, email, password, displayName)>>
                /\ inflight' = inflight (+) SetToBag({Attempt(sub, resub)})
        /\ UNCHANGED <<email, password, displayName, asyncTransitions,
                       remote, lastFailed, history>>

\* onClick={handleSubmit(onSignInSubmit)}
SignInClick == Submit("signIn")

\* onClick={handleSubmit(onSignUpSubmit)}
SignUpClick == Submit("signUp")

-----------------------------------------------------------------------------
(* The remote call settles and the callback resumes after its await.      *)

RespondTo(a) ==
    \E r \in remote :
        LET friendlyMessage == FriendlyMessage(r.message)
        IN  /\ BagIn(a, inflight)
            /\ inflight' = inflight (-) SetToBag({a})
            /\ IF r.error
               THEN \* throw error -> catch
                    /\ authError' = Some(friendlyMessage)
                    /\ out' = FailureEffects(a.sub.action, friendlyMessage)
                    /\ lastFailed' = IF history THEN Some(a.sub) ELSE Null
                    /\ lastStep' = Step("failed", a.sub.action, Some(a.sub),
                                        a.resubmit, Some(r))
               ELSE \* toast; router.push('/')
                    /\ out' = SuccessEffects(a.sub.action)
                    /\ lastStep' = Step("succeeded", a.sub.action,
                                        Some(a.sub), a.resubmit, Some(r))
                    /\ UNCHANGED <<authError, lastFailed>>
            /\ UNCHANGED <<email, password, displayName, errors,
                           isSubmitted, isPending, asyncTransitions, remote,
                           history>>

Respond == \E a \in BagToSet(inflight) : RespondTo(a)

-----------------------------------------------------------------------------
(* The transition ends and isPending goes back to false: when the         *)
(* callback has returned (at its first await), or, under a runtime with   *)
(* async transitions, when the callback's promise has settled.            *)

\* A faulty variant: the pending flag is not reset once an attempt has failed.
TransitionSettled_UnlessFailed ==
    /\ asyncTransitions => inflight = EmptyBag
    /\ authError = Null

TransitionSettled == asyncTransitions => inflight = EmptyBag

TransitionEnd ==
    /\ isPending
    /\ TransitionSettled
    /\ isPending' = FALSE
    /\ out' = <<>>
    /\ lastStep' = Idle("transitionEnd")
    /\ UNCHANGED <<email, password, displayName, errors, isSubmitted,
                   authError, asyncTransitions, inflight, remote,
                   lastFailed, history>>

-----------------------------------------------------------------------------

Next ==
    \/ ChangeEmail
    \/ ChangePassword
    \/ ChangeDisplayName
    \/ SignInClick
    \/ SignUpClick
    \/ Respond
    \/ TransitionEnd

Spec == Init /\ [][Next]_vars

HistorySpec == InitHistory /\ [][Next]_vars

\* The remote service answers every request, and the UI runtime ends
\* every transition.
FairSpec ==
    /\ InitCore
    /\ [][Next]_vars
    /\ WF_vars(Respond)
    /\ WF_vars(TransitionEnd)

-----------------------------------------------------------------------------
(* Vocabulary of the properties *)

IsCall(x) == x.kind = "call"
IsToast(x) == x.kind = "toast"
IsPush(x) == x.kind = "push"

Calls(o) == SelectSeq(o, IsCall)
Toasts(o) == SelectSeq(o, IsToast)
Pushes(o) == SelectSeq(o, IsPush)

\* The last step was a click on a submit button.
Clicked == lastStep.kind \in {"blocked", "rejected", "started"}

\* The last step was the remote call of an attempt settling.
Settled == lastStep.kind \in {"succeeded", "failed"}

\* The addresses among Emails that are empty or malformed.
BadEmails == {"", "a@b"}

\* The mapping as the specification words it.
ReferenceMessage(message) ==
    LET text == IF message = Null THEN "" ELSE message[1]
        credentials == Includes(text, "Invalid login credentials")
        registered == Includes(text, "User already registered")
        weak == Includes(text, "Password should be at least 6 characters")
    IN  CASE credentials -> "Invalid email or password. Please try again."
          [] ~credentials /\ registered ->
                "This email is already registered. Please sign in."
          [] ~credentials /\ ~registered /\ weak ->
                "Password should be at least 6 characters."
          [] ~credentials /\ ~registered /\ ~weak /\ text # "" -> text
          [] ~credentials /\ ~registered /\ ~weak /\ text = "" ->
                "An unknown error occurred. Please try again."

-----------------------------------------------------------------------------
(* C1: whenever the remote call of either operation returns without an    *)
(* error, the handler shows one notification of severity 'default'        *)
(* (signedIn* keys for signIn, accountCreated* keys for signUp) and then  *)
(* navigates to '/'; and a navigation happens only in such a step, never  *)
(* after a failed or a blocked attempt.                                    *)
C1_SuccessNotifiesThenNavigates ==
    /\ (Settled /\ ~lastStep.response[1].error) =>
          /\ Len(out) = 2
          /\ out[1] = [kind |-> "toast", variant |-> "default",
                       title |-> IF lastStep.action = "signUp"
                                 THEN T("accountCreatedToastTitle")
                                 ELSE T("signedInToastTitle"),
                       description |-> IF lastStep.action = "signUp"
                                       THEN T("accountCreatedToastDescription")
                                       ELSE T("signedInToastDescription")]
          /\ out[2] = [kind |-> "push", path |-> "/"]
    /\ Pushes(out) # <<>> =>
          /\ Settled
          /\ ~lastStep.response[1].error
          /\ Pushes(out) = <<[kind |-> "push", path |-> "/"]>>

C1_Witness ==
    /\ lastStep.kind = "succeeded"
    /\ lastStep.action = "signUp"
    /\ Len(out) = 2

(* C2: whenever the remote call returns an error (or throws), the attempt *)
(* ends with authError set to the mapped message, exactly one             *)
(* notification, of severity 'destructive', carrying that same message    *)
(* under the action's error title, and no navigation.                     *)
C2_FailureSetsErrorAndNotifies ==
    (Settled /\ lastStep.response[1].error) =>
        /\ authError = Some(ReferenceMessage(lastStep.response[1].message))
        /\ out = <<[kind |-> "toast", variant |-> "destructive",
                    title |-> IF lastStep.action = "signUp"
                              THEN T("signUpErrorToastTitle")
                              ELSE T("signInErrorToastTitle"),
                    description |-> authError[1]]>>
        /\ Pushes(out) = <<>>

C2_Witness ==
    /\ lastStep.kind = "failed"
    /\ lastStep.action = "signUp"
    /\ authError # Null

(* C3 (as claimed): a sign-up click whose display name is empty, shorter  *)
(* than 2 characters or whitespace-only never calls the remote sign-up    *)
(* operation, and sets authError and shows a destructive notification     *)
(* instead.  (Email and password are valid, so that only the display name *)
(* decides.)                                                               *)
C3_Claimed ==
    ( /\ Clicked
      /\ lastStep.action = "signUp"
      /\ lastStep.sub[1].email \notin BadEmails
      /\ Len(lastStep.sub[1].password) >= 6
      /\ \/ Len(lastStep.sub[1].displayName) < 2
         \/ lastStep.sub[1].displayName = "  " ) =>
        /\ Calls(out) = <<>>
        /\ authError # Null
        /\ \E i \in 1..Len(out) :
              IsToast(out[i]) /\ out[i].variant = "destructive"

(* C4: a click on either button with an empty or malformed email, or a    *)
(* password of fewer than 6 characters, is blocked: no remote call, no    *)
(* notification, no navigation, no transition, and a field error is       *)
(* recorded for each offending field.                                     *)
C4_InvalidInputBlocked ==
    Clicked =>
        /\ lastStep.sub[1].email \in BadEmails =>
              out = <<>> /\ ~isPending /\ errors.email # Null
        /\ Len(lastStep.sub[1].password) < 6 =>
              out = <<>> /\ ~isPending /\ errors.password # Null

C4_Witness ==
    /\ lastStep.kind = "blocked"
    /\ lastStep.sub[1].email = "a@b.co"
    /\ lastStep.sub[1].password = "12345"
    /\ lastStep.sub[1].displayName = "Al"
    /\ errors.password # Null

(* C5 (as claimed): a sign-in click with a valid email, a password of at  *)
(* least 6 characters and the display name left at its initial empty      *)
(* value passes validation and calls signInWithPassword with that email   *)
(* and password.                                                          *)
C5_Claimed ==
    ( /\ Clicked
      /\ lastStep.action = "signIn"
      /\ lastStep.sub[1].email \notin BadEmails
      /\ Len(lastStep.sub[1].password) >= 6
      /\ lastStep.sub[1].displayName = "" ) =>
        /\ errors = NoErrors
        /\ Len(Calls(out)) = 1
        /\ Calls(out)[1].op = "signInWithPassword"
        /\ Calls(out)[1].email = lastStep.sub[1].email
        /\ Calls(out)[1].password = lastStep.sub[1].password

(* C6: for every remote error message, the message displayed after the    *)
(* failure is the one the reference mapping gives: the three patterns in  *)
(* their order, else the raw message, else the generic default.           *)
C6_MapperAgreesWithReference ==
    lastStep.kind = "failed" =>
        authError = Some(ReferenceMessage(lastStep.response[1].message))

C6_Witness ==
    /\ lastStep.kind = "failed"
    /\ lastStep.response[1].message =
          Some("User already registered; Invalid login credentials")
    /\ authError = Some("Invalid email or password. Please try again.")

C8_NoAutomaticRetry ==
    [][ /\ Len(Calls(out')) <= 1
        /\ Calls(out') # <<>> =>
              /\ lastStep'.kind = "started"
              /\ ~isPending
              /\ Calls(out')[1].op = IF lastStep'.action = "signUp"
                                     THEN "signUp"
                                     ELSE "signInWithPassword"
        /\ BagCardinality(inflight') <=
              BagCardinality(inflight) + Len(Calls(out'))
        /\ lastStep'.kind = "failed" =>
              /\ Calls(out') = <<>>
              /\ BagCardinality(inflight') = BagCardinality(inflight) - 1
      ]_vars

C8_Witness ==
    /\ lastStep.kind = "failed"
    /\ lastStep.action = "signIn"
    /\ inflight = EmptyBag
    /\ ~isPending

C10_Recoverable ==
    /\ (isPending \/ Settled \/ lastStep.kind = "rejected") ~> ~Disabled
    /\ (inflight # EmptyBag) ~> Settled

C10_Witness ==
    /\ lastStep.kind = "transitionEnd"
    /\ asyncTransitions
    /\ authError = Some("Invalid email or password. Please try again.")
    /\ ~isPending

====
